---- MODULE Spec2Model ----
(***************************************************************************)
(* Model of backend/server.py: the document analysis pipeline              *)
(*   analyze_document -> extract_text_from_pdf / extract_text_from_image   *)
(*                    -> analyze_document_with_openai                      *)
(*                    -> generate_compliance_notes -> DocumentAnalysisResult*)
(*                                                                         *)
(* Text is kept run-length encoded (a sequence of [c, n] runs) so that the *)
(* 4000 character limit keeps its real value.  A reply of the language     *)
(* model is a sequence of lexical tokens: braces, commas, prose words,     *)
(* JSON literals and "key":value members.                                  *)
(***************************************************************************)
EXTENDS Integers, Sequences, FiniteSets, TLC

VARIABLES
    pc,               \* position of the handler: idle, received, reading, awaiting_llm, analyzed, done
    file,             \* the UploadFile: [size, content_type]
    api_key,          \* TRUE iff os.environ has a non-empty OPENAI_API_KEY
    extracted_text,   \* local extracted_text of analyze_document
    user_text,        \* the document text placed in the UserMessage
    response,         \* the reply of chat.send_message
    analysis_result,  \* the value returned by analyze_document_with_openai
    compliance_notes, \* local compliance_notes of analyze_document
    outcome,          \* the HTTP response of the request: [status, detail, body]
    trace,            \* the pipeline steps this request has performed, in order
    document,         \* what the decoder made of the payload of this request
    reqs,             \* concurrent requests: the locals of each handler task
    uuids             \* number of session ids uuid.uuid4() has produced

conc == <<reqs, uuids>>

vars == <<pc, file, api_key, extracted_text, user_text, response,
          analysis_result, compliance_notes, outcome, trace, document,
          reqs, uuids>>

----------------------------------------------------------------------------
(* Bounds of the model *)

MaxRuns == 1        \* runs of equal characters in a page / OCR text
MaxPages == 2       \* pages of a PDF document
MaxReplyLen == 3    \* tokens in a reply of the language model
MaxRequests == 2    \* requests in flight at the same time

----------------------------------------------------------------------------
(* Program constants *)

MAX_FILE_SIZE == 10 * 1024 * 1024

MAX_TEXT_LEN == 4000

allowed_types ==
    <<"application/pdf", "image/jpeg", "image/jpg", "image/png",
      "image/tiff", "image/bmp">>

FIELD_NAMES ==
    <<"effective_date", "insured_party", "underwriter",
      "legal_description", "exceptions", "policy_amount">>

NOTE_EFFECTIVE_DATE == "Effective date not found - verify policy activation date"
NOTE_POLICY_AMOUNT == "Policy amount not identified - confirm coverage limits"
NOTE_LEGAL_DESCRIPTION == "Legal description missing - property boundaries may need verification"
NOTE_EXCEPTIONS_FOUND == "Policy exceptions identified - review for potential issues"
NOTE_NO_EXCEPTIONS == "No exceptions listed - standard coverage applies"
NOTE_UNDERWRITER == "Underwriter identified - policy issuer confirmed"
NOTE_PROCESSED == "Document processed - review all fields for accuracy"

DETAIL_SIZE == "File size exceeds 10MB limit"
DETAIL_TYPE == "Unsupported file type. Please upload PDF or image files."
DETAIL_PDF == "Failed to extract text from PDF"
DETAIL_IMAGE == "Failed to extract text from image"
DETAIL_EMPTY == "No text could be extracted from the document"
DETAIL_NO_KEY == "OpenAI API key not configured"
DETAIL_ANALYZE == "Failed to analyze document: "
DETAIL_INTERNAL == "Internal server error during document analysis"

----------------------------------------------------------------------------
(* Range(s): the elements of a sequence *)

Range(s) == { s[i] : i \in 1..Len(s) }

SeqsUpTo(S, n) == UNION { [1..k -> S] : k \in 0..n }

----------------------------------------------------------------------------
(* Text: run-length encoded strings *)

Chars == {" ", "a"}

\* str.strip(" "): only the blank is stripped
IsSpace_OnlyBlank(c) == c = " "

IsSpace(c) == c \in {" ", "\n"}

RunLens == {1, MAX_TEXT_LEN}

Run(c, n) == [c |-> c, n |-> n]

RECURSIVE Norm(_)
Norm(t) ==
    IF Len(t) = 0 THEN <<>>
    ELSE IF t[1].n = 0 THEN Norm(Tail(t))
    ELSE IF Len(t) = 1 THEN t
    ELSE IF t[2].n = 0 THEN Norm(<<t[1]>> \o Tail(Tail(t)))
    ELSE IF t[1].c = t[2].c
         THEN Norm(<<Run(t[1].c, t[1].n + t[2].n)>> \o Tail(Tail(t)))
         ELSE <<t[1]>> \o Norm(Tail(t))

Concat(a, b) == Norm(a \o b)

RECURSIVE TextLen(_)
TextLen(t) == IF Len(t) = 0 THEN 0 ELSE t[1].n + TextLen(Tail(t))

RECURSIVE LStrip(_)
LStrip(t) ==
    IF Len(t) = 0 THEN <<>>
    ELSE IF IsSpace(t[1].c) THEN LStrip(Tail(t))
    ELSE t

RECURSIVE RStrip(_)
RStrip(t) ==
    IF Len(t) = 0 THEN <<>>
    ELSE IF IsSpace(t[Len(t)].c) THEN RStrip(SubSeq(t, 1, Len(t) - 1))
    ELSE t

Strip(t) == RStrip(LStrip(t))

\* the slice left out
Prefix_NoLimit(t, k) == t

RECURSIVE Prefix(_, _)
Prefix(t, k) ==
    IF Len(t) = 0 \/ k <= 0 THEN <<>>
    ELSE IF t[1].n >= k THEN <<Run(t[1].c, k)>>
    ELSE <<t[1]>> \o Prefix(Tail(t), k - t[1].n)

PageTexts ==
    { Norm(t) : t \in SeqsUpTo({ Run(c, n) : c \in Chars, n \in RunLens }, MaxRuns) }

----------------------------------------------------------------------------
(* extract_text_from_pdf and extract_text_from_image.  The decoders are    *)
(* black boxes: a document is what PyPDF2 / PIL + Tesseract make of the    *)
(* payload, [ok |-> FALSE] when they raise.                                *)

NEWLINE == <<Run("\n", 1)>>

PdfDocuments ==
    { [ok |-> o, pages |-> p] : o \in BOOLEAN, p \in SeqsUpTo(PageTexts, MaxPages) }

ImageDocuments ==
    { [ok |-> o, text |-> t] : o \in BOOLEAN, t \in PageTexts }

RECURSIVE PagesText(_, _)
PagesText(text, pages) ==
    IF Len(pages) = 0 THEN text
    ELSE PagesText(Concat(Concat(text, pages[1]), NEWLINE), Tail(pages))

\* the decode failure reported as a server fault
extract_text_from_pdf_500(doc) ==
    IF doc.ok
    THEN [raised |-> FALSE, text |-> PagesText(<<>>, doc.pages),
          status |-> 0, detail |-> ""]
    ELSE [raised |-> TRUE, text |-> <<>>, status |-> 500, detail |-> DETAIL_PDF]

extract_text_from_pdf(doc) ==
    IF doc.ok
    THEN [raised |-> FALSE, text |-> PagesText(<<>>, doc.pages),
          status |-> 0, detail |-> ""]
    ELSE [raised |-> TRUE, text |-> <<>>, status |-> 400, detail |-> DETAIL_PDF]

extract_text_from_image(doc) ==
    IF doc.ok
    THEN [raised |-> FALSE, text |-> doc.text, status |-> 0, detail |-> ""]
    ELSE [raised |-> TRUE, text |-> <<>>, status |-> 400, detail |-> DETAIL_IMAGE]

----------------------------------------------------------------------------
(* JSON values and json.loads over reply tokens *)

JNull == [type |-> "null"]
JStr(s) == [type |-> "string", s |-> s]
JNum(s) == [type |-> "number", s |-> s]
JArr == [type |-> "array"]
JObj(m) == [type |-> "object", members |-> m]
Unset == [type |-> "unset"]

\* lexical tokens of a reply
Punct(t) == [tok |-> t]
Member(k, v) == [tok |-> "member", key |-> k, value |-> v]

LBRACE == Punct("{")
RBRACE == Punct("}")
COMMA == Punct(",")
PROSE == Punct("Here")
LIT_NULL == Punct("null")
LIT_ARRAY == Punct("[]")

IsMember(t) == t.tok = "member"

\* members a reply of the pipeline may contain
ReplyMembers ==
    { Member("effective_date", JStr("2024-01-15")),
      Member("exceptions", JStr("")),
      Member("underwriter", JNull),
      Member("policy_amount", JNum("450000")),
      Member("confidence", JStr("high")) }

Tokens == {LBRACE, RBRACE, COMMA, PROSE, LIT_NULL, LIT_ARRAY} \cup ReplyMembers

Replies == SeqsUpTo(Tokens, MaxReplyLen)

IsMemberList(inner) ==
    \/ Len(inner) = 0
    \/ /\ Len(inner) % 2 = 1
       /\ \A i \in 1..Len(inner) :
            IF i % 2 = 1 THEN IsMember(inner[i]) ELSE inner[i] = COMMA

\* a repeated key keeps its last value, as Python's dict does
MembersDict(inner) ==
    LET idx == { i \in 1..Len(inner) : i % 2 = 1 }
        keys == { inner[i].key : i \in idx }
        last(k) == CHOOSE i \in idx :
                      /\ inner[i].key = k
                      /\ \A j \in idx : inner[j].key = k => j <= i
    IN  [k \in keys |-> inner[last(k)].value]

JSON_FAIL == [ok |-> FALSE, value |-> Unset]

json_loads(toks) ==
    IF toks = <<LIT_NULL>> THEN [ok |-> TRUE, value |-> JNull]
    ELSE IF toks = <<LIT_ARRAY>> THEN [ok |-> TRUE, value |-> JArr]
    ELSE IF /\ Len(toks) >= 2
            /\ toks[1] = LBRACE
            /\ toks[Len(toks)] = RBRACE
            /\ IsMemberList(SubSeq(toks, 2, Len(toks) - 1))
         THEN [ok |-> TRUE,
               value |-> JObj(MembersDict(SubSeq(toks, 2, Len(toks) - 1)))]
    ELSE JSON_FAIL

\* re.search(r'\{.*\}', response, re.DOTALL): greedy, from the first "{"
\* to the last "}" after it
re_search(toks) ==
    LET opens == { i \in 1..Len(toks) : toks[i] = LBRACE }
        first == CHOOSE i \in opens : \A j \in opens : i <= j
        closes == { i \in 1..Len(toks) : toks[i] = RBRACE /\ i > first }
        last == CHOOSE i \in closes : \A j \in closes : j <= i
    IN  IF opens = {} THEN [found |-> FALSE, group |-> <<>>]
        ELSE IF closes = {} THEN [found |-> FALSE, group |-> <<>>]
        ELSE [found |-> TRUE, group |-> SubSeq(toks, first, last)]

EMPTY_RESULT ==
    JObj([k \in Range(FIELD_NAMES) |-> JNull])

\* no search for an embedded object: all-null whenever the reply is not JSON
ParseResponse_NoFallback(resp) ==
    IF json_loads(resp).ok
    THEN [raised |-> FALSE, value |-> json_loads(resp).value, detail |-> ""]
    ELSE [raised |-> FALSE, value |-> EMPTY_RESULT, detail |-> ""]

\* lines 123-147: what analyze_document_with_openai makes of a reply
ParseResponse(resp) ==
    LET direct == json_loads(resp)
        json_match == re_search(resp)
        inner == json_loads(json_match.group)
    IN  IF direct.ok THEN [raised |-> FALSE, value |-> direct.value, detail |-> ""]
        ELSE IF json_match.found
             THEN IF inner.ok
                  THEN [raised |-> FALSE, value |-> inner.value, detail |-> ""]
                  ELSE [raised |-> TRUE, value |-> Unset,
                        detail |-> DETAIL_ANALYZE \o "JSONDecodeError"]
        ELSE [raised |-> FALSE, value |-> EMPTY_RESULT, detail |-> ""]

----------------------------------------------------------------------------
(* generate_compliance_notes *)

Get(d, k) == IF k \in DOMAIN d THEN d[k] ELSE JNull

\* Python truthiness of a JSON value
Truthy(v) ==
    CASE v.type = "null" -> FALSE
      [] v.type = "string" -> v.s # ""
      [] v.type = "number" -> v.s # "0"
      [] OTHER -> FALSE

\* the final append indented into the underwriter branch
generate_compliance_notes_FinalInBranch(d) ==
    (IF ~Truthy(Get(d, "effective_date")) THEN <<NOTE_EFFECTIVE_DATE>> ELSE <<>>)
    \o (IF ~Truthy(Get(d, "policy_amount")) THEN <<NOTE_POLICY_AMOUNT>> ELSE <<>>)
    \o (IF ~Truthy(Get(d, "legal_description")) THEN <<NOTE_LEGAL_DESCRIPTION>> ELSE <<>>)
    \o (IF Truthy(Get(d, "exceptions")) THEN <<NOTE_EXCEPTIONS_FOUND>> ELSE <<NOTE_NO_EXCEPTIONS>>)
    \o (IF Truthy(Get(d, "underwriter")) THEN <<NOTE_UNDERWRITER, NOTE_PROCESSED>> ELSE <<>>)

\* rule 4 as two separate tests, the second one "is None"
generate_compliance_notes_TwoTests(d) ==
    (IF ~Truthy(Get(d, "effective_date")) THEN <<NOTE_EFFECTIVE_DATE>> ELSE <<>>)
    \o (IF ~Truthy(Get(d, "policy_amount")) THEN <<NOTE_POLICY_AMOUNT>> ELSE <<>>)
    \o (IF ~Truthy(Get(d, "legal_description")) THEN <<NOTE_LEGAL_DESCRIPTION>> ELSE <<>>)
    \o (IF Truthy(Get(d, "exceptions")) THEN <<NOTE_EXCEPTIONS_FOUND>> ELSE <<>>)
    \o (IF Get(d, "exceptions") = JNull THEN <<NOTE_NO_EXCEPTIONS>> ELSE <<>>)
    \o (IF Truthy(Get(d, "underwriter")) THEN <<NOTE_UNDERWRITER>> ELSE <<>>)
    \o <<NOTE_PROCESSED>>

\* the policy amount rule placed before the effective date rule
generate_compliance_notes_Swapped(d) ==
    (IF ~Truthy(Get(d, "policy_amount")) THEN <<NOTE_POLICY_AMOUNT>> ELSE <<>>)
    \o (IF ~Truthy(Get(d, "effective_date")) THEN <<NOTE_EFFECTIVE_DATE>> ELSE <<>>)
    \o (IF ~Truthy(Get(d, "legal_description")) THEN <<NOTE_LEGAL_DESCRIPTION>> ELSE <<>>)
    \o (IF Truthy(Get(d, "exceptions")) THEN <<NOTE_EXCEPTIONS_FOUND>> ELSE <<NOTE_NO_EXCEPTIONS>>)
    \o (IF Truthy(Get(d, "underwriter")) THEN <<NOTE_UNDERWRITER>> ELSE <<>>)
    \o <<NOTE_PROCESSED>>

\* rule 1 testing "is None" instead of truthiness
generate_compliance_notes_IsNone(d) ==
    (IF Get(d, "effective_date") = JNull THEN <<NOTE_EFFECTIVE_DATE>> ELSE <<>>)
    \o (IF ~Truthy(Get(d, "policy_amount")) THEN <<NOTE_POLICY_AMOUNT>> ELSE <<>>)
    \o (IF ~Truthy(Get(d, "legal_description")) THEN <<NOTE_LEGAL_DESCRIPTION>> ELSE <<>>)
    \o (IF Truthy(Get(d, "exceptions")) THEN <<NOTE_EXCEPTIONS_FOUND>> ELSE <<NOTE_NO_EXCEPTIONS>>)
    \o (IF Truthy(Get(d, "underwriter")) THEN <<NOTE_UNDERWRITER>> ELSE <<>>)
    \o <<NOTE_PROCESSED>>

generate_compliance_notes(d) ==
    (IF ~Truthy(Get(d, "effective_date")) THEN <<NOTE_EFFECTIVE_DATE>> ELSE <<>>)
    \o (IF ~Truthy(Get(d, "policy_amount")) THEN <<NOTE_POLICY_AMOUNT>> ELSE <<>>)
    \o (IF ~Truthy(Get(d, "legal_description")) THEN <<NOTE_LEGAL_DESCRIPTION>> ELSE <<>>)
    \o (IF Truthy(Get(d, "exceptions")) THEN <<NOTE_EXCEPTIONS_FOUND>> ELSE <<NOTE_NO_EXCEPTIONS>>)
    \o (IF Truthy(Get(d, "underwriter")) THEN <<NOTE_UNDERWRITER>> ELSE <<>>)
    \o <<NOTE_PROCESSED>>

----------------------------------------------------------------------------
(* The response of a request *)

NoBody == [type |-> "none"]

NoOutcome == [status |-> 0, detail |-> "", body |-> NoBody]

HTTPException(status_code, detail) ==
    [status |-> status_code, detail |-> detail, body |-> NoBody]

\* str(e) of an HTTPException: "<status>: <detail>" where Starlette defines
\* __str__, the empty string in the releases that do not
StrOfHTTPException(status_code, detail, has_str) ==
    IF has_str THEN ToString(status_code) \o ": " \o detail ELSE ""

\* an Optional[str] field of the pydantic model: None and str pass, a number
\* is coerced to str by pydantic 1 and rejected by pydantic 2
OptionalStrValid(v, coerce) ==
    \/ v.type \in {"null", "string"}
    \/ v.type = "number" /\ coerce

OptionalStr(v) == IF v.type = "number" THEN JStr(v.s) ELSE v

DocumentAnalysisResult(d, notes) ==
    [k \in Range(FIELD_NAMES) |-> OptionalStr(Get(d, k))]
    @@ [id |-> JStr("uuid4"),
        compliance_notes |-> notes,
        processing_status |-> "completed",
        timestamp |-> "utcnow"]

\* lines 219-243 of analyze_document: notes, result object, return
AssembleResult(ar, coerce) ==
    IF ar.type # "object"
    THEN HTTPException(500, DETAIL_INTERNAL)      \* .get of a non-dict
    ELSE LET d == ar.members
             notes == generate_compliance_notes(d)
         IN  IF \A k \in Range(FIELD_NAMES) : OptionalStrValid(Get(d, k), coerce)
             THEN [status |-> 200, detail |-> "",
                   body |-> DocumentAnalysisResult(d, notes)]
             ELSE HTTPException(500, DETAIL_INTERNAL)   \* ValidationError

----------------------------------------------------------------------------
(* The requests *)

ContentTypes == Range(allowed_types) \cup {"text/plain", "application/octet-stream"}

Sizes == {0, MAX_FILE_SIZE, MAX_FILE_SIZE + 1}

Files == [size : Sizes, content_type : ContentTypes]

NoFile == [size |-> 0, content_type |-> ""]

ServiceErrors == {"TimeoutError", "RateLimitError", "AuthenticationError"}

Documents(f) ==
    LET all == IF f.content_type = "application/pdf"
               THEN PdfDocuments ELSE ImageDocuments
    IN  { doc \in all : f.size = 0 => ~doc.ok }   \* no bytes, nothing to decode

NoDocument == [ok |-> FALSE]

\* the handler tasks of the concurrent requests
ReqIds == 1..MaxRequests

NoService == [raised |-> FALSE, err |-> "", reply |-> <<>>]

\* what a task has been given from outside: the decoded payload, the answer
\* of the service, and the behaviour of the installed pydantic / Starlette
NoInputs ==
    [doc |-> NoDocument, service |-> NoService, coerce |-> FALSE, has_str |-> FALSE]

IdleTask ==
    [pc |-> "idle", file |-> NoFile, extracted_text |-> <<>>, session_id |-> 0,
     response |-> <<>>, analysis_result |-> Unset, outcome |-> NoOutcome,
     calls |-> 0, inputs |-> NoInputs]

----------------------------------------------------------------------------
(* The handler analyze_document, one action per step between its awaits *)

Init ==
    /\ pc = "idle"
    /\ file = NoFile
    /\ api_key \in BOOLEAN
    /\ extracted_text = <<>>
    /\ user_text = <<>>
    /\ response = <<>>
    /\ analysis_result = Unset
    /\ compliance_notes = <<>>
    /\ outcome = NoOutcome
    /\ trace = <<>>
    /\ document = NoDocument
    /\ reqs = [r \in ReqIds |-> IdleTask]
    /\ uuids = 0

Fail(status_code, detail, steps) ==
    /\ outcome' = HTTPException(status_code, detail)
    /\ trace' = trace \o steps
    /\ pc' = "done"

\* the limit written as 100 MB
SizeExceedsLimit_100MB(f) == f.size # 0 /\ f.size > 100 * 1024 * 1024

\* line 185: file.size and file.size > 10 * 1024 * 1024
SizeExceedsLimit(f) == f.size # 0 /\ f.size > MAX_FILE_SIZE

\* an allow-list that also admits application/octet-stream
TypeAllowed_OctetStream(f) ==
    f.content_type \in Range(allowed_types) \cup {"application/octet-stream"}

\* line 194: file.content_type in allowed_types
TypeAllowed(f) == f.content_type \in Range(allowed_types)

\* the transport hands an UploadFile to the handler
Receive ==
    /\ pc = "idle"
    /\ \E f \in Files : file' = f
    /\ pc' = "received"
    /\ UNCHANGED <<api_key, extracted_text, user_text, response,
                   analysis_result, compliance_notes, outcome, trace>>
    /\ UNCHANGED <<document, reqs, uuids>>

\* the two checks in the other order
Validate_TypeFirst ==
    /\ pc = "received"
    /\ IF ~TypeAllowed(file)
       THEN Fail(400, DETAIL_TYPE, <<"type_check">>)
       ELSE IF SizeExceedsLimit(file)
       THEN Fail(400, DETAIL_SIZE, <<"type_check", "size_check">>)
       ELSE /\ pc' = "reading"
            /\ trace' = trace \o <<"type_check", "size_check">>
            /\ UNCHANGED outcome
    /\ UNCHANGED <<file, api_key, extracted_text, user_text, response,
                   analysis_result, compliance_notes>>
    /\ UNCHANGED <<document, reqs, uuids>>

\* lines 184-201: size check, type check, then await file.read()
Validate ==
    /\ pc = "received"
    /\ IF SizeExceedsLimit(file)
       THEN Fail(400, DETAIL_SIZE, <<"size_check">>)
       ELSE IF ~TypeAllowed(file)
       THEN Fail(400, DETAIL_TYPE, <<"size_check", "type_check">>)
       ELSE /\ pc' = "reading"
            /\ trace' = trace \o <<"size_check", "type_check">>
            /\ UNCHANGED outcome
    /\ UNCHANGED <<file, api_key, extracted_text, user_text, response,
                   analysis_result, compliance_notes>>
    /\ UNCHANGED <<document, reqs, uuids>>

\* lines 201-211: the read completes, text extraction, empty-text check
ExtractText ==
    /\ pc = "reading"
    /\ \E doc \in Documents(file) :
         LET is_pdf == file.content_type = "application/pdf"
             ext == IF is_pdf THEN extract_text_from_pdf(doc)
                    ELSE extract_text_from_image(doc)
             steps == <<"read", IF is_pdf THEN "extract_text_from_pdf"
                                ELSE "extract_text_from_image">>
         IN  /\ document' = doc
             /\ IF ext.raised
                THEN Fail(ext.status, ext.detail, steps) /\ UNCHANGED extracted_text
                ELSE /\ extracted_text' = ext.text
                     /\ IF Strip(ext.text) = <<>>
                        THEN Fail(400, DETAIL_EMPTY, steps \o <<"empty_check">>)
                        ELSE /\ pc' = "extracted"
                             /\ trace' = trace \o steps \o <<"empty_check">>
                             /\ UNCHANGED outcome
    /\ UNCHANGED <<file, api_key, user_text, response, analysis_result,
                   compliance_notes>>
    /\ UNCHANGED conc

\* the message sent without looking at the key
SendMessage_NoKeyCheck ==
    /\ pc = "extracted"
    /\ user_text' = Prefix(extracted_text, MAX_TEXT_LEN)
    /\ pc' = "awaiting_llm"
    /\ trace' = trace \o <<"uuid4", "send_message">>
    /\ UNCHANGED <<file, api_key, extracted_text, response, analysis_result,
                   compliance_notes, outcome>>
    /\ UNCHANGED <<document, reqs, uuids>>

\* lines 213-217 and 88-121: session id, analyze_document_with_openai up to
\* its await
SendMessage ==
    /\ pc = "extracted"
    /\ IF ~api_key
       THEN /\ \E has_str \in BOOLEAN :
                 Fail(500, DETAIL_ANALYZE
                           \o StrOfHTTPException(500, DETAIL_NO_KEY, has_str),
                      <<"uuid4", "api_key_check">>)
            /\ UNCHANGED user_text
       ELSE /\ user_text' = Prefix(extracted_text, MAX_TEXT_LEN)
            /\ pc' = "awaiting_llm"
            /\ trace' = trace \o <<"uuid4", "api_key_check", "send_message">>
            /\ UNCHANGED outcome
    /\ UNCHANGED <<file, api_key, extracted_text, response, analysis_result,
                   compliance_notes>>
    /\ UNCHANGED <<document, reqs, uuids>>

\* the error of the call swallowed: the all-null field map instead
LLMRaise_Swallowed ==
    /\ pc = "awaiting_llm"
    /\ analysis_result' = EMPTY_RESULT
    /\ pc' = "analyzed"
    /\ trace' = trace \o <<"service_error">>
    /\ UNCHANGED <<file, api_key, extracted_text, user_text, response,
                   compliance_notes, outcome>>
    /\ UNCHANGED <<document, reqs, uuids>>

\* the call repeated once after an error
LLMRaise_Retry ==
    /\ pc = "awaiting_llm"
    /\ IF "service_error" \in Range(trace)
       THEN \E err \in ServiceErrors :
               Fail(500, DETAIL_ANALYZE \o err, <<"service_error">>)
       ELSE /\ trace' = trace \o <<"service_error", "send_message">>
            /\ UNCHANGED <<pc, outcome>>
    /\ UNCHANGED <<file, api_key, extracted_text, user_text, response,
                   analysis_result, compliance_notes>>
    /\ UNCHANGED <<document, reqs, uuids>>

\* line 121 raises: timeout, rate limit, authentication failure
LLMRaise ==
    /\ pc = "awaiting_llm"
    /\ \E err \in ServiceErrors :
         Fail(500, DETAIL_ANALYZE \o err, <<"service_error">>)
    /\ UNCHANGED <<file, api_key, extracted_text, user_text, response,
                   analysis_result, compliance_notes>>
    /\ UNCHANGED <<document, reqs, uuids>>

\* lines 121-147: the reply arrives and is parsed
LLMReply ==
    /\ pc = "awaiting_llm"
    /\ \E reply \in Replies :
         LET parsed == ParseResponse(reply)
         IN  /\ response' = reply
             /\ IF parsed.raised
                THEN Fail(500, parsed.detail, <<"parse">>)
                     /\ UNCHANGED analysis_result
                ELSE /\ analysis_result' = parsed.value
                     /\ pc' = "analyzed"
                     /\ trace' = trace \o <<"parse">>
                     /\ UNCHANGED outcome
    /\ UNCHANGED <<file, api_key, extracted_text, user_text, compliance_notes>>
    /\ UNCHANGED <<document, reqs, uuids>>

\* lines 219-243: compliance notes, result object, return
Assemble ==
    /\ pc = "analyzed"
    /\ \E coerce \in BOOLEAN : outcome' = AssembleResult(analysis_result, coerce)
    /\ compliance_notes' =
          IF analysis_result.type = "object"
          THEN generate_compliance_notes(analysis_result.members)
          ELSE compliance_notes
    /\ trace' = trace \o <<"generate_compliance_notes">>
    /\ pc' = "done"
    /\ UNCHANGED <<file, api_key, extracted_text, user_text, response,
                   analysis_result>>
    /\ UNCHANGED <<document, reqs, uuids>>

\* the response is sent; nothing of the request is kept
Respond ==
    /\ pc = "done"
    /\ pc' = "idle"
    /\ file' = NoFile
    /\ extracted_text' = <<>>
    /\ user_text' = <<>>
    /\ response' = <<>>
    /\ analysis_result' = Unset
    /\ compliance_notes' = <<>>
    /\ outcome' = NoOutcome
    /\ trace' = <<>>
    /\ document' = NoDocument
    /\ UNCHANGED conc
    /\ UNCHANGED api_key

Next ==
    \/ Receive
    \/ Validate
    \/ ExtractText
    \/ SendMessage
    \/ LLMRaise
    \/ LLMReply
    \/ Assemble
    \/ Respond

Spec == Init /\ [][Next]_vars

TypeOK ==
    /\ pc \in {"idle", "received", "reading", "extracted", "awaiting_llm",
               "analyzed", "done"}
    /\ outcome.status \in {0, 200, 400, 500}

----------------------------------------------------------------------------
(* generate_compliance_notes and the result object over every field map:   *)
(* the handler after a reply that is the JSON text of a field map.         *)

FieldValues ==
    {JNull, JStr(""), JStr("First American Title"), JNum("0"), JNum("450000")}

ExtraMembers == { <<>>, [k \in {"confidence"} |-> JStr("high")] }

FieldMaps ==
    { m @@ x : m \in UNION { [K -> FieldValues] : K \in SUBSET Range(FIELD_NAMES) },
               x \in ExtraMembers }

RECURSIVE MemberTokens(_, _)
MemberTokens(m, keys) ==
    IF Len(keys) = 0 THEN <<>>
    ELSE IF keys[1] \notin DOMAIN m THEN MemberTokens(m, Tail(keys))
    ELSE LET rest == MemberTokens(m, Tail(keys))
         IN  <<Member(keys[1], m[keys[1]])>>
             \o (IF Len(rest) = 0 THEN <<>> ELSE <<COMMA>> \o rest)

\* the JSON text of a field map, as a reply
ObjectReply(m) ==
    <<LBRACE>> \o MemberTokens(m, FIELD_NAMES \o <<"confidence">>) \o <<RBRACE>>

SampleText == <<Run("a", 1), Run("\n", 1)>>

InitNotes ==
    /\ pc = "analyzed"
    /\ file = [size |-> MAX_FILE_SIZE, content_type |-> "application/pdf"]
    /\ api_key = TRUE
    /\ extracted_text = SampleText
    /\ user_text = Prefix(SampleText, MAX_TEXT_LEN)
    /\ \E m \in FieldMaps :
         /\ response = ObjectReply(m)
         /\ analysis_result = ParseResponse(ObjectReply(m)).value
    /\ compliance_notes = <<>>
    /\ outcome = NoOutcome
    /\ trace = <<"size_check", "type_check", "read", "extract_text_from_pdf",
                 "empty_check", "uuid4", "api_key_check", "send_message", "parse">>
    /\ document = [ok |-> TRUE, pages |-> <<<<Run("a", 1)>>>>]
    /\ reqs = [r \in ReqIds |-> IdleTask]
    /\ uuids = 0

NextNotes == Assemble \/ Respond

SpecNotes == InitNotes /\ [][NextNotes]_vars

\* the reply text of a field map parses back to that field map
NotesInputOK ==
    pc = "analyzed" =>
        /\ analysis_result.type = "object"
        /\ analysis_result.members \in FieldMaps
        /\ response = ObjectReply(analysis_result.members)

----------------------------------------------------------------------------
(* Concurrent requests: every request is a task running analyze_document   *)
(* on its own locals; tasks interleave step by step.  The process state    *)
(* they share is the environment (api_key) and uuid.uuid4().               *)

single == <<pc, file, extracted_text, user_text, response, analysis_result,
            compliance_notes, outcome, trace, document>>

ConcFiles ==
    { [size |-> MAX_FILE_SIZE + 1, content_type |-> "application/pdf"],
      [size |-> MAX_FILE_SIZE, content_type |-> "text/plain"],
      [size |-> MAX_FILE_SIZE, content_type |-> "application/pdf"],
      [size |-> MAX_FILE_SIZE, content_type |-> "image/png"] }

ConcDocuments(f) ==
    IF f.content_type = "application/pdf"
    THEN { [ok |-> FALSE, pages |-> <<>>],
           [ok |-> TRUE, pages |-> <<>>],
           [ok |-> TRUE, pages |-> << <<Run("a", 1)>> >>] }
    ELSE { [ok |-> FALSE, text |-> <<>>],
           [ok |-> TRUE, text |-> <<Run(" ", 1)>>],
           [ok |-> TRUE, text |-> <<Run("a", 1)>>] }

ConcReplies ==
    { <<LBRACE, Member("effective_date", JStr("2024-01-15")), RBRACE>>,
      <<PROSE>>,
      <<LBRACE, PROSE, RBRACE>>,
      <<LIT_NULL>> }

ConcServices ==
    { [raised |-> TRUE, err |-> "RateLimitError", reply |-> <<>>] }
    \cup { [raised |-> FALSE, err |-> "", reply |-> rp] : rp \in ConcReplies }

Finish(t, o) == [t EXCEPT !.pc = "done", !.outcome = o]

CReceive(r) ==
    /\ reqs[r].pc = "idle"
    /\ \E f \in ConcFiles :
         reqs' = [reqs EXCEPT ![r] = [@ EXCEPT !.pc = "received", !.file = f]]
    /\ UNCHANGED <<single, api_key, uuids>>

CValidate(r) ==
    LET t == reqs[r]
    IN  /\ t.pc = "received"
        /\ reqs' = [reqs EXCEPT ![r] =
              IF SizeExceedsLimit(t.file)
              THEN Finish(t, HTTPException(400, DETAIL_SIZE))
              ELSE IF ~TypeAllowed(t.file)
              THEN Finish(t, HTTPException(400, DETAIL_TYPE))
              ELSE [t EXCEPT !.pc = "reading"]]
        /\ UNCHANGED <<single, api_key, uuids>>

CExtractText(r) ==
    LET t == reqs[r]
    IN  /\ t.pc = "reading"
        /\ \E doc \in ConcDocuments(t.file) :
             LET ext == IF t.file.content_type = "application/pdf"
                        THEN extract_text_from_pdf(doc)
                        ELSE extract_text_from_image(doc)
                 got == [t EXCEPT !.inputs.doc = doc]
             IN  reqs' = [reqs EXCEPT ![r] =
                   IF ext.raised
                   THEN Finish(got, HTTPException(ext.status, ext.detail))
                   ELSE IF Strip(ext.text) = <<>>
                   THEN Finish([got EXCEPT !.extracted_text = ext.text],
                               HTTPException(400, DETAIL_EMPTY))
                   ELSE [got EXCEPT !.extracted_text = ext.text,
                                    !.pc = "extracted"]]
        /\ UNCHANGED <<single, api_key, uuids>>

\* one session id for every request
CSendMessage_SharedSession(r) ==
    LET t == reqs[r]
    IN  /\ t.pc = "extracted"
        /\ uuids' = uuids
        /\ \E has_str \in BOOLEAN :
             LET got == [t EXCEPT !.session_id = 1, !.inputs.has_str = has_str]
             IN  reqs' = [reqs EXCEPT ![r] =
                   IF ~api_key
                   THEN Finish(got, HTTPException(500, DETAIL_ANALYZE
                           \o StrOfHTTPException(500, DETAIL_NO_KEY, has_str)))
                   ELSE [got EXCEPT !.pc = "awaiting_llm", !.calls = @ + 1]]
        /\ UNCHANGED <<single, api_key>>

\* line 214: a fresh uuid4; then analyze_document_with_openai up to its await
CSendMessage(r) ==
    LET t == reqs[r]
    IN  /\ t.pc = "extracted"
        /\ uuids' = uuids + 1
        /\ \E has_str \in BOOLEAN :
             LET got == [t EXCEPT !.session_id = uuids + 1,
                                  !.inputs.has_str = has_str]
             IN  reqs' = [reqs EXCEPT ![r] =
                   IF ~api_key
                   THEN Finish(got, HTTPException(500, DETAIL_ANALYZE
                           \o StrOfHTTPException(500, DETAIL_NO_KEY, has_str)))
                   ELSE [got EXCEPT !.pc = "awaiting_llm", !.calls = @ + 1]]
        /\ UNCHANGED <<single, api_key>>

\* the service answers the call of task r: it raises or it replies
CServiceAnswer(r) ==
    LET t == reqs[r]
    IN  /\ t.pc = "awaiting_llm"
        /\ \E sv \in ConcServices :
             LET got == [t EXCEPT !.inputs.service = sv]
                 parsed == ParseResponse(sv.reply)
             IN  reqs' = [reqs EXCEPT ![r] =
                   IF sv.raised
                   THEN Finish(got, HTTPException(500, DETAIL_ANALYZE \o sv.err))
                   ELSE IF parsed.raised
                   THEN Finish([got EXCEPT !.response = sv.reply],
                               HTTPException(500, parsed.detail))
                   ELSE [got EXCEPT !.response = sv.reply,
                                    !.analysis_result = parsed.value,
                                    !.pc = "analyzed"]]
        /\ UNCHANGED <<single, api_key, uuids>>

CAssemble(r) ==
    LET t == reqs[r]
    IN  /\ t.pc = "analyzed"
        /\ \E coerce \in BOOLEAN :
             reqs' = [reqs EXCEPT ![r] =
                   Finish([t EXCEPT !.inputs.coerce = coerce],
                          AssembleResult(t.analysis_result, coerce))]
        /\ UNCHANGED <<single, api_key, uuids>>

InitConc ==
    /\ pc = "idle"
    /\ file = NoFile
    /\ api_key \in BOOLEAN
    /\ extracted_text = <<>>
    /\ user_text = <<>>
    /\ response = <<>>
    /\ analysis_result = Unset
    /\ compliance_notes = <<>>
    /\ outcome = NoOutcome
    /\ trace = <<>>
    /\ document = NoDocument
    /\ reqs = [r \in ReqIds |-> IdleTask]
    /\ uuids = 0

NextConc ==
    \/ \E r \in ReqIds : CReceive(r)
    \/ \E r \in ReqIds : CValidate(r)
    \/ \E r \in ReqIds : CExtractText(r)
    \/ \E r \in ReqIds : CSendMessage(r)
    \/ \E r \in ReqIds : CServiceAnswer(r)
    \/ \E r \in ReqIds : CAssemble(r)

SpecConc == InitConc /\ [][NextConc]_vars

----------------------------------------------------------------------------
(* Properties *)

Did(step) == step \in Range(trace)

ExtractionSteps == {"extract_text_from_pdf", "extract_text_from_image"}

NoExtraction == \A st \in ExtractionSteps : ~Did(st)

AllFieldsNull(body) == \A k \in Range(FIELD_NAMES) : body[k] = JNull

\* a reply that is not JSON and whose "{" ... "}" part is missing or not JSON
Malformed(reply) ==
    /\ ~json_loads(reply).ok
    /\ \/ ~re_search(reply).found
       \/ ~json_loads(re_search(reply).group).ok

\* C1: a reply that does not parse as JSON, and whose brace-delimited part
\* is missing or does not parse either, gives the all-null field map and a
\* completed result; the request never fails on such a reply.
C1_MalformedReplyDegrades ==
    (Did("parse") /\ Malformed(response)) =>
        /\ pc \in {"analyzed", "done"}
        /\ analysis_result = EMPTY_RESULT
        /\ pc = "done" => /\ outcome.status = 200
                          /\ AllFieldsNull(outcome.body)

\* C2: a request whose size exceeds 10 MiB is rejected with the size error;
\* the payload is not read, no text is extracted, the service is not called.
C2_OversizedRejected ==
    (pc # "idle" /\ file.size > 10 * 1024 * 1024) =>
        /\ pc \in {"received", "done"}
        /\ pc = "done" => outcome = HTTPException(400, DETAIL_SIZE)
        /\ ~Did("read") /\ NoExtraction /\ ~Did("send_message")

C2_Witness ==
    /\ pc = "done"
    /\ file.size > 10 * 1024 * 1024
    /\ outcome.detail = DETAIL_SIZE
    /\ trace = <<"size_check">>

DeclaredTypeSupported ==
    file.content_type \in {"application/pdf", "image/jpeg", "image/jpg",
                           "image/png", "image/tiff", "image/bmp"}

\* C3: a request of a media type outside the allow-list whose size passes
\* the size check is rejected with status 400 and the unsupported-type
\* error; no text is extracted and the service is not called.
C3_UnsupportedTypeRejected ==
    (pc # "idle" /\ file.size <= 10 * 1024 * 1024 /\ ~DeclaredTypeSupported) =>
        /\ pc \in {"received", "done"}
        /\ pc = "done" => outcome = HTTPException(400, DETAIL_TYPE)
        /\ NoExtraction /\ ~Did("send_message")

C3_Witness ==
    /\ pc = "done"
    /\ file.size <= 10 * 1024 * 1024
    /\ ~DeclaredTypeSupported
    /\ outcome.status = 400
    /\ outcome.detail = DETAIL_TYPE

\* text of whitespace only, the empty text included
Blank(t) == \A i \in 1..Len(t) : t[i].c \in {" ", "\n"}

\* C4: when the extracted text is empty or whitespace only the request is
\* rejected with status 400 and the empty-text error, and the service is
\* never called.
C4_BlankTextRejected ==
    (Did("empty_check") /\ Blank(extracted_text)) =>
        /\ pc = "done"
        /\ outcome = HTTPException(400, DETAIL_EMPTY)
        /\ ~Did("send_message")

C4_Witness ==
    /\ pc = "done"
    /\ Did("empty_check")
    /\ Blank(extracted_text)
    /\ extracted_text # <<>>
    /\ outcome.detail = DETAIL_EMPTY

CheckOrder == <<"size_check", "type_check", "read", "extract", "empty_check">>

\* the trace with both extractors named "extract"
Steps ==
    [i \in 1..Len(trace) |->
        IF trace[i] \in ExtractionSteps THEN "extract" ELSE trace[i]]

\* C5: validation runs in the order size, type, empty text, and the first
\* violated check decides the error: over 10 MiB and of an unsupported type
\* gives the size error; a type violation is reported before any extraction.
C5_ValidationOrder ==
    /\ \A i \in 1..Len(trace) : i <= Len(CheckOrder) => Steps[i] = CheckOrder[i]
    /\ pc = "done" =>
        /\ file.size > 10 * 1024 * 1024 => outcome.detail = DETAIL_SIZE
        /\ (file.size <= 10 * 1024 * 1024 /\ ~DeclaredTypeSupported) =>
              /\ outcome.detail = DETAIL_TYPE
              /\ ~Did("read") /\ NoExtraction
        /\ outcome.detail = DETAIL_EMPTY =>
              /\ file.size <= 10 * 1024 * 1024
              /\ DeclaredTypeSupported

C5_Witness ==
    /\ pc = "done"
    /\ file.size > 10 * 1024 * 1024
    /\ ~DeclaredTypeSupported
    /\ outcome.detail = DETAIL_SIZE

\* C6: every returned AnalysisResult has the six field slots, each a string
\* or null, an id, processing_status "completed", a timestamp, and notes
\* that are not empty and end with the "Document processed" note.
C6_ResultShape ==
    (pc = "done" /\ outcome.status = 200) =>
        LET body == outcome.body
            notes == body.compliance_notes
        IN  /\ {"id", "effective_date", "insured_party", "underwriter",
                "legal_description", "exceptions", "policy_amount",
                "compliance_notes", "processing_status", "timestamp"}
                   = DOMAIN body
            /\ \A k \in {"effective_date", "insured_party", "underwriter",
                         "legal_description", "exceptions", "policy_amount"} :
                  body[k].type \in {"string", "null"}
            /\ body.processing_status = "completed"
            /\ Len(notes) >= 1
            /\ notes[Len(notes)] = NOTE_PROCESSED

C6_Witness ==
    /\ pc = "done"
    /\ outcome.status = 200
    /\ outcome.body.effective_date.type = "string"
    /\ outcome.body.underwriter = JNull
    /\ Len(outcome.body.compliance_notes) >= 2

\* generate_compliance_notes has run on a field map
NotesGenerated == pc = "done" /\ analysis_result.type = "object"

\* C7: the notes contain exactly one of the two rule-4 notes, never both and
\* never neither.
C7_ExactlyOneExceptionsNote ==
    NotesGenerated =>
        Cardinality({ i \in 1..Len(compliance_notes) :
                        compliance_notes[i]
                            \in {NOTE_EXCEPTIONS_FOUND, NOTE_NO_EXCEPTIONS} }) = 1

C7_Witness ==
    /\ NotesGenerated
    /\ Get(analysis_result.members, "exceptions") = JStr("")
    /\ NOTE_NO_EXCEPTIONS \in Range(compliance_notes)
    /\ NOTE_EXCEPTIONS_FOUND \notin Range(compliance_notes)

\* the values Python takes as false
Falsy == {JNull, JStr(""), JNum("0")}

RuleOrder ==
    <<NOTE_EFFECTIVE_DATE, NOTE_POLICY_AMOUNT, NOTE_LEGAL_DESCRIPTION,
      NOTE_EXCEPTIONS_FOUND, NOTE_NO_EXCEPTIONS, NOTE_UNDERWRITER, NOTE_PROCESSED>>

RuleFires(note, d) ==
    CASE note = NOTE_EFFECTIVE_DATE -> Get(d, "effective_date") \in Falsy
      [] note = NOTE_POLICY_AMOUNT -> Get(d, "policy_amount") \in Falsy
      [] note = NOTE_LEGAL_DESCRIPTION -> Get(d, "legal_description") \in Falsy
      [] note = NOTE_EXCEPTIONS_FOUND -> Get(d, "exceptions") \notin Falsy
      [] note = NOTE_NO_EXCEPTIONS -> Get(d, "exceptions") \in Falsy
      [] note = NOTE_UNDERWRITER -> Get(d, "underwriter") \notin Falsy
      [] note = NOTE_PROCESSED -> TRUE

\* C8: the notes are exactly the notes of the rules that fire, in the rule
\* order; every rule is evaluated, each note appears at most once, and there
\* are between 2 and 6 notes.
C8_NotesInRuleOrder ==
    NotesGenerated =>
        LET d == analysis_result.members
        IN  /\ compliance_notes = SelectSeq(RuleOrder, LAMBDA n : RuleFires(n, d))
            /\ \A i, j \in 1..Len(compliance_notes) :
                  compliance_notes[i] = compliance_notes[j] => i = j
            /\ Len(compliance_notes) >= 2
            /\ Len(compliance_notes) <= 6

C8_Witness ==
    /\ NotesGenerated
    /\ Len(compliance_notes) = 6
    /\ compliance_notes[5] = NOTE_UNDERWRITER

Warnings ==
    { <<"effective_date", NOTE_EFFECTIVE_DATE>>,
      <<"policy_amount", NOTE_POLICY_AMOUNT>>,
      <<"legal_description", NOTE_LEGAL_DESCRIPTION>> }

\* the field map with the same null fields, every other field "present"
NullPattern(d) ==
    [k \in Range(FIELD_NAMES) |->
        IF Get(d, k) = JNull THEN JNull ELSE JStr("present")]

\* a field map of strings and nulls only
StringOrNull(d) == \A k \in DOMAIN d : d[k].type \in {"string", "null"}

\* C9 as stated: the notes depend only on which fields are null, and a
\* "missing" warning for a field appears in a result only when that field is
\* null in the result.
C9_NotesFromNullPattern ==
    (NotesGenerated /\ StringOrNull(analysis_result.members)) =>
        /\ compliance_notes = generate_compliance_notes(NullPattern(analysis_result.members))
        /\ outcome.status = 200 =>
              \A w \in Warnings :
                  w[2] \in Range(compliance_notes) => outcome.body[w[1]] = JNull

\* the field map with the same false fields, every other field "present"
TruthPattern(d) ==
    [k \in Range(FIELD_NAMES) |->
        IF Get(d, k) \in Falsy THEN JNull ELSE JStr("present")]

\* C9 amended: the notes depend only on which fields are true in Python's
\* sense (not null, not the empty string, not zero), and a "missing" warning
\* for a field appears only when that field of the field map is false in
\* that sense.
C9_NotesFromTruthPattern ==
    NotesGenerated =>
        /\ compliance_notes = generate_compliance_notes(TruthPattern(analysis_result.members))
        /\ \A w \in Warnings :
              w[2] \in Range(compliance_notes)
                  => Get(analysis_result.members, w[1]) \in Falsy

C9_Witness ==
    /\ NotesGenerated
    /\ outcome.status = 200
    /\ outcome.body.effective_date = JStr("")
    /\ NOTE_EFFECTIVE_DATE \in Range(compliance_notes)

\* the request failed at the credential check
FailedOnCredential ==
    /\ pc = "done"
    /\ Len(trace) > 0
    /\ trace[Len(trace)] = "api_key_check"

\* C10 as stated: a request that fails on the missing credential fails
\* before any extraction work: no text extraction and no service call.
C10_CredentialBeforeExtraction ==
    FailedOnCredential =>
        /\ ~api_key
        /\ outcome.status = 500
        /\ NoExtraction
        /\ ~Did("send_message")

\* C10 amended: without a credential no request calls the service or
\* completes; a request that passes the three validations fails with status
\* 500 at the credential check, which comes after text extraction and the
\* empty-text check and before the service call.
C10_CredentialBeforeServiceCall ==
    /\ ~api_key => ~Did("send_message") /\ outcome.status # 200
    /\ (~api_key /\ pc = "done" /\ Did("empty_check") /\ ~Blank(extracted_text))
          => FailedOnCredential
    /\ FailedOnCredential =>
          /\ ~api_key
          /\ outcome.status = 500
          /\ outcome.detail \in
                {DETAIL_ANALYZE \o "500: " \o DETAIL_NO_KEY, DETAIL_ANALYZE}
          /\ ~NoExtraction
          /\ Did("empty_check")
          /\ ~Did("send_message")

C10_Witness ==
    /\ FailedOnCredential
    /\ Did("extract_text_from_image")
    /\ outcome.status = 500

\* C11: a missing credential gives a service-unavailable response that
\* carries the configuration error itself, not the re-wrapped
\* "Failed to analyze document" server fault of a failed service call.
C11_ConfigurationErrorSurfaced ==
    FailedOnCredential =>
        /\ outcome.status = 503
        /\ outcome.detail = DETAIL_NO_KEY

\* the call to the service raised
ServiceCallFailed == Did("service_error")

\* C12: when the call to the service raises, the request fails with status
\* 500 and a detail carrying the failure's message; no result is returned
\* and the compliance notes are not generated.
C12_ServiceErrorIsServerFault ==
    ServiceCallFailed =>
        /\ pc = "done"
        /\ outcome.status = 500
        /\ \E err \in {"TimeoutError", "RateLimitError", "AuthenticationError"} :
              outcome.detail = "Failed to analyze document: " \o err
        /\ outcome.body = NoBody
        /\ ~Did("generate_compliance_notes")
        /\ compliance_notes = <<>>

C12_Witness ==
    /\ ServiceCallFailed
    /\ pc = "done"
    /\ outcome.detail = "Failed to analyze document: RateLimitError"

\* text extraction raised on the payload
DecodeFailed ==
    /\ pc = "done"
    /\ ~NoExtraction
    /\ ~document.ok

\* C13: when the payload cannot be decoded (an empty payload of an allowed
\* type included) the request is rejected with status 400, never a server
\* fault, and the service is never called.
C13_DecodeFailureRejected ==
    /\ DecodeFailed =>
          /\ outcome.status = 400
          /\ outcome.detail \in {DETAIL_PDF, DETAIL_IMAGE}
          /\ ~Did("send_message")
    /\ (pc = "done" /\ file.size = 0 /\ DeclaredTypeSupported) => DecodeFailed

C13_Witness ==
    /\ DecodeFailed
    /\ file.size = 0
    /\ file.content_type = "application/pdf"
    /\ outcome.status = 400

Calls == Cardinality({ i \in 1..Len(trace) : trace[i] = "send_message" })

\* C15: a request calls the service at most once: a failed call ends the
\* request without a retry and so does a reply that fails to parse.
C15_AtMostOneCall ==
    /\ Calls <= 1
    /\ ServiceCallFailed =>
          pc = "done" /\ trace[Len(trace)] = "service_error"
    /\ (Did("parse") /\ outcome.status = 500 /\ outcome.body = NoBody
            /\ analysis_result = Unset) =>
          pc = "done" /\ trace[Len(trace)] = "parse"

C15_Witness ==
    /\ pc = "done"
    /\ Did("parse")
    /\ Malformed(response)
    /\ re_search(response).found
    /\ outcome.status = 500
    /\ Calls = 1

\* u is the text t cut after some character
IsPrefixText(u, t) ==
    /\ Len(u) <= Len(t)
    /\ \A i \in 1..Len(u) :
          IF i < Len(u) THEN u[i] = t[i]
          ELSE u[i].c = t[i].c /\ u[i].n >= 1 /\ u[i].n <= t[i].n

\* C18: the text sent to the service is the first 4000 characters of the
\* extracted text, all of it when it has at most 4000; a longer text is cut
\* silently and the request goes on to the service call.
C18_FirstFourThousand ==
    /\ Did("send_message") =>
          /\ IsPrefixText(user_text, extracted_text)
          /\ TextLen(user_text) =
                IF TextLen(extracted_text) <= 4000
                THEN TextLen(extracted_text) ELSE 4000
    /\ (api_key /\ Did("empty_check") /\ ~Blank(extracted_text)
            /\ pc # "extracted") => Did("send_message")

C18_Witness ==
    /\ pc = "done"
    /\ outcome.status = 200
    /\ TextLen(extracted_text) > 4000
    /\ TextLen(user_text) = 4000
    /\ user_text # extracted_text

\* C19: extract_text_from_pdf raises the extraction error when the payload
\* does not parse as a PDF and when it parses to a document of zero pages;
\* it returns no text for a zero-page document.
C19_ZeroPagesRaise ==
    (Did("extract_text_from_pdf")
        /\ (~document.ok \/ Len(document.pages) = 0)) =>
        /\ pc = "done"
        /\ outcome = HTTPException(400, DETAIL_PDF)
        /\ ~Did("empty_check")

Completed == outcome.status = 200 /\ outcome.body # NoBody

ValidationRejected ==
    /\ outcome.status = 400
    /\ outcome.detail \in
          {DETAIL_SIZE, DETAIL_TYPE, DETAIL_PDF, DETAIL_IMAGE, DETAIL_EMPTY}
    /\ ~Did("send_message")

\* the failure was raised by analyze_document_with_openai
FailedOnExtractionCall ==
    /\ outcome.status = 500
    /\ outcome.detail \in
          { DETAIL_ANALYZE \o x :
              x \in {"TimeoutError", "RateLimitError", "AuthenticationError",
                     "JSONDecodeError", "500: " \o DETAIL_NO_KEY, ""} }
    /\ Did("api_key_check")

\* C16 (its terminal outcomes): a finished request has exactly one outcome:
\* a completed result, a validation rejection, or a failure on the
\* extraction call; nothing of the pipeline runs after the outcome.
C16_TerminalOutcomes ==
    pc = "done" =>
        /\ Completed \/ ValidationRejected \/ FailedOnExtractionCall
        /\ ~(Completed /\ ValidationRejected)
        /\ ~(Completed /\ FailedOnExtractionCall)
        /\ ~(ValidationRejected /\ FailedOnExtractionCall)
        /\ Completed <=> Did("generate_compliance_notes")

\* C16 (its progress): every received request reaches its outcome, the
\* extractor and the service returning or raising.
SpecFair == Spec /\ WF_vars(Next)

C16_Terminates == (pc = "received") ~> (pc = "done")

\* C16 (no step after the outcome): the only step of a finished request is
\* the sending of its response.
C16_NoStepAfterOutcome ==
    [][pc = "done" => (pc' = "idle" /\ trace' = <<>>)]_vars

\* C17: a reply that is well-formed JSON completes the request; the six
\* fields of the result are the reply's values for the six names, null for
\* a name the reply lacks, other keys dropped; no such reply (an array or
\* null included) makes the request fail.
C17_WellFormedReplyCompletes ==
    (pc = "done" /\ Did("parse") /\ json_loads(response).ok) =>
        LET v == json_loads(response).value
        IN  /\ outcome.status = 200
            /\ v.type = "object" =>
                  \A k \in Range(FIELD_NAMES) :
                      outcome.body[k] = Get(v.members, k)
            /\ "confidence" \notin DOMAIN outcome.body

\* the tokens i..j of the reply are a JSON object with other tokens around it
Embedded(i, j) ==
    /\ 1 <= i /\ i <= j /\ j <= Len(response)
    /\ i > 1 \/ j < Len(response)
    /\ json_loads(SubSeq(response, i, j)).ok
    /\ json_loads(SubSeq(response, i, j)).value.type = "object"

Positions == 1..Len(response)

\* C20 as stated: when the reply is not JSON but is a JSON object wrapped in
\* prose, the field map returned is that object; the all-null map is
\* returned only when the reply has no "{" ... "}" part.
C20_EmbeddedObjectRecovered ==
    (Did("parse") /\ ~json_loads(response).ok) =>
        /\ \A i, j \in Positions :
              Embedded(i, j) =>
                  analysis_result = json_loads(SubSeq(response, i, j)).value
        /\ analysis_result = EMPTY_RESULT =>
              \/ ~re_search(response).found
              \/ json_loads(re_search(response).group).value = EMPTY_RESULT

\* C20 amended: the same, for an object with no "{" in the prose before it
\* and no "}" in the prose after it.
C20_EmbeddedObjectRecoveredCleanProse ==
    (Did("parse") /\ ~json_loads(response).ok) =>
        /\ \A i, j \in Positions :
              (/\ Embedded(i, j)
               /\ \A p \in 1..(i - 1) : response[p] # LBRACE
               /\ \A p \in (j + 1)..Len(response) : response[p] # RBRACE) =>
                  /\ pc \in {"analyzed", "done"}
                  /\ analysis_result = json_loads(SubSeq(response, i, j)).value
        /\ analysis_result = EMPTY_RESULT =>
              \/ ~re_search(response).found
              \/ json_loads(re_search(response).group).value = EMPTY_RESULT

C20_Witness ==
    /\ pc = "done"
    /\ Did("parse")
    /\ response = <<PROSE, LBRACE, RBRACE>>
    /\ analysis_result = JObj(<<>>)
    /\ outcome.status = 200

\* analyze_document run alone on a file, with the given answers of the
\* decoder and the service
RunAlone(f, in, key) ==
    LET ext == IF f.content_type = "application/pdf"
               THEN extract_text_from_pdf(in.doc)
               ELSE extract_text_from_image(in.doc)
        parsed == ParseResponse(in.service.reply)
    IN  IF f.size > 10 * 1024 * 1024 THEN HTTPException(400, DETAIL_SIZE)
        ELSE IF f.content_type \notin Range(allowed_types)
        THEN HTTPException(400, DETAIL_TYPE)
        ELSE IF ext.raised THEN HTTPException(ext.status, ext.detail)
        ELSE IF Blank(ext.text) THEN HTTPException(400, DETAIL_EMPTY)
        ELSE IF ~key
        THEN HTTPException(500, DETAIL_ANALYZE
                \o StrOfHTTPException(500, DETAIL_NO_KEY, in.has_str))
        ELSE IF in.service.raised
        THEN HTTPException(500, DETAIL_ANALYZE \o in.service.err)
        ELSE IF parsed.raised THEN HTTPException(500, parsed.detail)
        ELSE AssembleResult(parsed.value, in.coerce)

\* the outcome of every finished request is the outcome it has when run
\* alone; requests that have a session id have different ones
C14_OwnInputsOnly ==
    /\ \A r \in ReqIds :
          reqs[r].pc = "done" =>
              reqs[r].outcome = RunAlone(reqs[r].file, reqs[r].inputs, api_key)
    /\ \A r, q \in ReqIds :
          (r # q /\ reqs[r].session_id # 0 /\ reqs[q].session_id # 0) =>
              reqs[r].session_id # reqs[q].session_id

\* a step is the step of one request and leaves the others as they are; a
\* finished request does not change any more
C14_OneTaskPerStep ==
    /\ \E r \in ReqIds : \A q \in ReqIds \ {r} : reqs'[q] = reqs[q]
    /\ \A r \in ReqIds : reqs[r].pc = "done" => reqs'[r] = reqs[r]

\* C14: in every interleaving of concurrent requests the outcome of a
\* request is determined by its own file, the answers to its own calls and
\* the credential; each request has its own fresh session id; a step of one
\* request, its failure included, changes nothing of another request.
C14_RequestsIndependent ==
    []C14_OwnInputsOnly /\ [][C14_OneTaskPerStep]_vars

\* one request has failed on the service call while another, started
\* alongside it, has completed
C14_Witness ==
    \E r, q \in ReqIds :
        /\ r # q
        /\ reqs[r].pc = "done" /\ reqs[r].outcome.status = 500
        /\ reqs[r].inputs.service.raised
        /\ reqs[q].pc = "done" /\ reqs[q].outcome.status = 200
        /\ reqs[q].session_id > reqs[r].session_id

====
